---- MODULE Spec2Model ----
(***************************************************************************)
(* Dual-gate airlock interlock controller.                                 *)
(*                                                                         *)
(* Two sketches are modelled: the level-sensing sketch                     *)
(* (src/unnamed/part_000), which reads the sensor lines with digitalRead   *)
(* wherever it needs them, and the simulation sketch                       *)
(* (src/Subtask_1/Simulation/simulation.ino), which keeps an edge-toggled  *)
(* boolean b[i] per input and decides on those.  One action is one pass    *)
(* of loop().                                                              *)
(***************************************************************************)
EXTENDS Integers, Sequences, FiniteSets, TLC

HIGH == TRUE
LOW == FALSE

\* ------------------------------------------------------------------ bounds
\* Number of level changes of the two safety lines that may fall between
\* the reads of one pass of the level-sensing sketch (SpecRace only).
MaxChanges == 1
\* Number of input lines of the simulation sketch held LOW in the same pass.
MaxHeld == 1

\* ------------------------------------------------------------- enumeration
ST_IDLE == "ST_IDLE"
ST_FRONT_ENTER == "ST_FRONT_ENTER"
ST_MIDDLE_OCCUPIED == "ST_MIDDLE_OCCUPIED"
ST_BACK_EXIT == "ST_BACK_EXIT"
ST_BACK_ENTER == "ST_BACK_ENTER"
ST_FRONT_EXIT == "ST_FRONT_EXIT"
ST_SAFETY_LOCK == "ST_SAFETY_LOCK"

AirlockState ==
  {ST_IDLE, ST_FRONT_ENTER, ST_MIDDLE_OCCUPIED, ST_BACK_EXIT,
   ST_BACK_ENTER, ST_FRONT_EXIT, ST_SAFETY_LOCK}

\* ledStrip.Color(r, g, b) values written by updateLEDs
Green == <<0, 255, 0>>
Red == <<255, 0, 0>>
Blue == <<0, 0, 255>>
Orange == <<255, 165, 0>>
Purple == <<128, 0, 128>>
Yellow == <<255, 255, 0>>

VARIABLES
  sketch,        \* "level" or "sim": which of the two sketches runs
  currentState,  \* AirlockState currentState
  gateA,         \* output level of GATE_REQUEST_A (HIGH = open)
  gateB,         \* output level of GATE_REQUEST_B
  led,           \* colour last written to the strip by updateLEDs
  b,             \* simulation sketch: b[0..6], the toggled inputs
  lastb,         \* simulation sketch: lastb[0..6], raw levels of the last pass
  currentb,      \* simulation sketch: currentb[0..6], the raw reads of the pass
  sample,        \* the input levels the last pass of loop() decided on
  entryState,    \* currentState when the last pass of loop() began
  cmds           \* the operateGate calls of the last pass, in order

vars == <<sketch, currentState, gateA, gateB, led, b, lastb, currentb,
          sample, entryState, cmds>>

\* The seven input lines, as levels.
Lines ==
  [front : BOOLEAN, middle : BOOLEAN, back : BOOLEAN,
   safetyA : BOOLEAN, safetyB : BOOLEAN,
   movingA : BOOLEAN, movingB : BOOLEAN]

\* Levels of the two safety lines at a later read of the same pass.
SafetyLevels == [safetyA : BOOLEAN, safetyB : BOOLEAN]

AllHigh ==
  [front |-> HIGH, middle |-> HIGH, back |-> HIGH, safetyA |-> HIGH,
   safetyB |-> HIGH, movingA |-> HIGH, movingB |-> HIGH]

\* The controller state a pass of loop() works on.
Ctl == [cs |-> currentState, gA |-> gateA, gB |-> gateB, led |-> led,
        cmds |-> <<>>]

\* One call of operateGate: the arguments, and whether the call returned
\* before its digitalWrite because the gate's safety line read obstructed.
\* The function is declared void: the caller is handed no outcome.
Call(gate, open, dropped) ==
  [gate |-> gate, open |-> open, dropped |-> dropped]

\* ------------------------------------------------- level-sensing sketch
\* operateGate(gate, open); safety is the level digitalRead returns for the
\* gate's own safety line inside the call.
operateGate(c, gate, open, safety) ==
  IF gate = 0
  THEN IF safety.safetyA = LOW
       THEN [c EXCEPT !.cmds = Append(@, Call(0, open, TRUE))]
       ELSE [c EXCEPT !.gA = open,
                      !.cmds = Append(@, Call(0, open, FALSE))]
  ELSE IF safety.safetyB = LOW
       THEN [c EXCEPT !.cmds = Append(@, Call(1, open, TRUE))]
       ELSE [c EXCEPT !.gB = open,
                      !.cmds = Append(@, Call(1, open, FALSE))]

updateLEDs(c, color) == [c EXCEPT !.led = color]

\* loop(), the branch taken when the safety check at the top finds an
\* obstruction.  g: safety levels read inside operateGate; k: safety levels
\* read again when the state is chosen.
\* ObstructionBranch with && for || in the re-check of the safety lines.
ObstructionBranch_AndRecheck(c, middle, g, k) ==
  LET c1 == operateGate(c, 0, FALSE, g)
      c2 == operateGate(c1, 1, FALSE, g)
      c3 == IF middle THEN [c2 EXCEPT !.cs = ST_MIDDLE_OCCUPIED]
            ELSE IF k.safetyA = LOW /\ k.safetyB = LOW
                 THEN [c2 EXCEPT !.cs = ST_SAFETY_LOCK]
                 ELSE [c2 EXCEPT !.cs = ST_IDLE]
  IN updateLEDs(c3, Red)

\* ObstructionBranch without the test of the middle zone.
ObstructionBranch_NoMiddleTest(c, middle, g, k) ==
  LET c1 == operateGate(c, 0, FALSE, g)
      c2 == operateGate(c1, 1, FALSE, g)
      c3 == IF k.safetyA = LOW \/ k.safetyB = LOW
            THEN [c2 EXCEPT !.cs = ST_SAFETY_LOCK]
            ELSE [c2 EXCEPT !.cs = ST_IDLE]
  IN updateLEDs(c3, Red)

ObstructionBranch(c, middle, g, k) ==
  LET c1 == operateGate(c, 0, FALSE, g)
      c2 == operateGate(c1, 1, FALSE, g)
      c3 == IF middle THEN [c2 EXCEPT !.cs = ST_MIDDLE_OCCUPIED]
            ELSE IF k.safetyA = LOW \/ k.safetyB = LOW
                 THEN [c2 EXCEPT !.cs = ST_SAFETY_LOCK]
                 ELSE [c2 EXCEPT !.cs = ST_IDLE]
  IN updateLEDs(c3, Red)

\* CaseIdle storing ST_FRONT_EXIT for ST_BACK_ENTER on entry from the back.
CaseIdle_WrongEnumerator(c, front, middle, back, g) ==
  IF front /\ ~middle /\ ~back
  THEN updateLEDs([operateGate(c, 0, TRUE, g) EXCEPT !.cs = ST_FRONT_ENTER],
                  Blue)
  ELSE IF back /\ ~middle /\ ~front
  THEN updateLEDs([operateGate(c, 1, TRUE, g) EXCEPT !.cs = ST_FRONT_EXIT],
                  Orange)
  ELSE IF front /\ back
  THEN updateLEDs([operateGate(c, 0, TRUE, g) EXCEPT !.cs = ST_FRONT_ENTER],
                  Purple)
  ELSE c

\* CaseIdle with the test of front missing from the first condition.
CaseIdle_NoFrontTest(c, front, middle, back, g) ==
  IF ~middle /\ ~back
  THEN updateLEDs([operateGate(c, 0, TRUE, g) EXCEPT !.cs = ST_FRONT_ENTER],
                  Blue)
  ELSE IF back /\ ~middle /\ ~front
  THEN updateLEDs([operateGate(c, 1, TRUE, g) EXCEPT !.cs = ST_BACK_ENTER],
                  Orange)
  ELSE IF front /\ back
  THEN updateLEDs([operateGate(c, 0, TRUE, g) EXCEPT !.cs = ST_FRONT_ENTER],
                  Purple)
  ELSE c

CaseIdle(c, front, middle, back, g) ==
  IF front /\ ~middle /\ ~back
  THEN updateLEDs([operateGate(c, 0, TRUE, g) EXCEPT !.cs = ST_FRONT_ENTER],
                  Blue)
  ELSE IF back /\ ~middle /\ ~front
  THEN updateLEDs([operateGate(c, 1, TRUE, g) EXCEPT !.cs = ST_BACK_ENTER],
                  Orange)
  ELSE IF front /\ back
  THEN updateLEDs([operateGate(c, 0, TRUE, g) EXCEPT !.cs = ST_FRONT_ENTER],
                  Purple)
  ELSE c

\* CaseFrontEnter without the test of the moving-A line.
CaseFrontEnter_NoMovingTest(c, middle, movingALevel, g) ==
  IF middle
  THEN updateLEDs([operateGate(c, 0, FALSE, g)
                     EXCEPT !.cs = ST_MIDDLE_OCCUPIED], Yellow)
  ELSE c

CaseFrontEnter(c, middle, movingALevel, g) ==
  IF movingALevel = LOW /\ middle
  THEN updateLEDs([operateGate(c, 0, FALSE, g)
                     EXCEPT !.cs = ST_MIDDLE_OCCUPIED], Yellow)
  ELSE c

CaseMiddleOccupied(c, movingALevel, g) ==
  IF movingALevel = HIGH
  THEN updateLEDs([operateGate(c, 1, TRUE, g) EXCEPT !.cs = ST_BACK_EXIT],
                  Purple)
  ELSE c

CaseBackExit(c, back, movingBLevel, g) ==
  IF movingBLevel = LOW /\ ~back
  THEN updateLEDs([operateGate(c, 1, FALSE, g) EXCEPT !.cs = ST_IDLE], Green)
  ELSE c

\* CaseSafetyLock with the polarity of the re-check reversed.
CaseSafetyLock_Reversed(c, k) ==
  IF k.safetyA = LOW /\ k.safetyB = LOW
  THEN updateLEDs([c EXCEPT !.cs = ST_IDLE], Green)
  ELSE c

CaseSafetyLock(c, k) ==
  IF k.safetyA = HIGH /\ k.safetyB = HIGH
  THEN updateLEDs([c EXCEPT !.cs = ST_IDLE], Green)
  ELSE c

\* One pass of loop().  p: the level each line has at its first read of the
\* pass; g, k: the levels of the safety lines at the later reads.
loop(c, p, g, k) ==
  LET front == (p.front = LOW)
      middle == (p.middle = LOW)
      back == (p.back = LOW)
  IN IF p.safetyA = LOW \/ p.safetyB = LOW
     THEN ObstructionBranch(c, middle, g, k)
     ELSE CASE c.cs = ST_IDLE -> CaseIdle(c, front, middle, back, g)
            [] c.cs = ST_FRONT_ENTER ->
                 CaseFrontEnter(c, middle, p.movingA, g)
            [] c.cs = ST_MIDDLE_OCCUPIED ->
                 CaseMiddleOccupied(c, p.movingA, g)
            [] c.cs = ST_BACK_EXIT -> CaseBackExit(c, back, p.movingB, g)
            [] c.cs = ST_SAFETY_LOCK -> CaseSafetyLock(c, k)
            [] OTHER -> c

\* Level changes of the safety lines between the three reads of a pass.
Changes(p, g, k) ==
  (IF p.safetyA # g.safetyA THEN 1 ELSE 0)
  + (IF g.safetyA # k.safetyA THEN 1 ELSE 0)
  + (IF p.safetyB # g.safetyB THEN 1 ELSE 0)
  + (IF g.safetyB # k.safetyB THEN 1 ELSE 0)

\* The state after a pass.
Commit(c, s) ==
  /\ currentState' = c.cs
  /\ gateA' = c.gA
  /\ gateB' = c.gB
  /\ led' = c.led
  /\ cmds' = c.cmds
  /\ sample' = s
  /\ entryState' = currentState

LevelPass(maxch) ==
  /\ sketch = "level"
  /\ \E p \in Lines : \E g, k \in SafetyLevels :
       /\ Changes(p, g, k) <= maxch
       /\ Commit(loop(Ctl, p, g, k), p)
  /\ UNCHANGED <<sketch, b, lastb, currentb>>

\* The lines hold their level for the whole pass.
LoopLevel == LevelPass(0)

\* The safety lines may change between the reads of a pass.
LoopLevelRace == LevelPass(MaxChanges)

\* ---------------------------------------------------- simulation sketch
Idx == 0 .. 6

\* b[] as the levels the pass decides on.
LinesOfB(bb) ==
  [front |-> bb[0], safetyA |-> bb[1], middle |-> bb[2], safetyB |-> bb[3],
   back |-> bb[4], movingA |-> bb[5], movingB |-> bb[6]]

operateGateSim(c, gate, open, bb) ==
  IF gate = 0
  THEN IF ~bb[1]
       THEN [c EXCEPT !.cmds = Append(@, Call(0, open, TRUE))]
       ELSE [c EXCEPT !.gA = open,
                      !.cmds = Append(@, Call(0, open, FALSE))]
  ELSE IF ~bb[3]
       THEN [c EXCEPT !.cmds = Append(@, Call(1, open, TRUE))]
       ELSE [c EXCEPT !.gB = open,
                      !.cmds = Append(@, Call(1, open, FALSE))]

\* ToggleB without the test of the previous level: b[i] follows the level
\* and is inverted in every pass that reads the line LOW.
ToggleB_NoEdge(bOld, lastbOld, raw) ==
  [i \in Idx |-> IF raw[i] = LOW THEN ~bOld[i] ELSE bOld[i]]

\* The edge detection at the top of loop().
ToggleB(bOld, lastbOld, raw) ==
  [i \in Idx |-> IF lastbOld[i] = HIGH /\ raw[i] = LOW
                 THEN ~bOld[i] ELSE bOld[i]]

\* lastb[i] = currentb[i] at the end of the edge detection.
StoreLastB(lastbOld, raw) == [i \in Idx |-> raw[i]]

ObstructionBranchSim(c, bb) ==
  LET c1 == operateGateSim(c, 0, FALSE, bb)
      c2 == operateGateSim(c1, 1, FALSE, bb)
      c3 == IF ~bb[2] THEN [c2 EXCEPT !.cs = ST_MIDDLE_OCCUPIED]
            ELSE IF ~bb[1] \/ ~bb[3]
                 THEN [c2 EXCEPT !.cs = ST_SAFETY_LOCK]
                 ELSE [c2 EXCEPT !.cs = ST_IDLE]
  IN updateLEDs(c3, Red)

CaseIdleSim(c, front, middle, back, bb) ==
  IF front /\ back
  THEN updateLEDs([operateGateSim(c, 0, TRUE, bb)
                     EXCEPT !.cs = ST_FRONT_ENTER], Purple)
  ELSE IF back /\ ~middle /\ ~front
  THEN updateLEDs([operateGateSim(c, 1, TRUE, bb)
                     EXCEPT !.cs = ST_BACK_ENTER], Orange)
  ELSE IF front /\ ~middle /\ ~back
  THEN updateLEDs([operateGateSim(c, 0, TRUE, bb)
                     EXCEPT !.cs = ST_FRONT_ENTER], Blue)
  ELSE c

CaseFrontEnterSim(c, middle, bb) ==
  IF ~bb[5] /\ middle
  THEN updateLEDs([operateGateSim(c, 0, FALSE, bb)
                     EXCEPT !.cs = ST_MIDDLE_OCCUPIED], Yellow)
  ELSE c

CaseMiddleOccupiedSim(c, bb) ==
  IF bb[5]
  THEN updateLEDs([operateGateSim(c, 1, TRUE, bb)
                     EXCEPT !.cs = ST_BACK_EXIT], Purple)
  ELSE c

CaseBackExitSim(c, back, bb) ==
  IF ~bb[6] /\ back
  THEN updateLEDs([operateGateSim(c, 1, FALSE, bb) EXCEPT !.cs = ST_IDLE],
                  Green)
  ELSE c

CaseSafetyLockSim(c, bb) ==
  IF bb[1] /\ bb[3]
  THEN updateLEDs([c EXCEPT !.cs = ST_IDLE], Green)
  ELSE c

\* loop() below the edge detection; bb is b[] after it.
loopSim(c, bb) ==
  LET front == ~bb[0]
      middle == ~bb[2]
      back == ~bb[4]
  IN IF bb[1] = FALSE \/ bb[3] = FALSE
     THEN ObstructionBranchSim(c, bb)
     ELSE CASE c.cs = ST_IDLE -> CaseIdleSim(c, front, middle, back, bb)
            [] c.cs = ST_FRONT_ENTER -> CaseFrontEnterSim(c, middle, bb)
            [] c.cs = ST_MIDDLE_OCCUPIED -> CaseMiddleOccupiedSim(c, bb)
            [] c.cs = ST_BACK_EXIT -> CaseBackExitSim(c, back, bb)
            [] c.cs = ST_SAFETY_LOCK -> CaseSafetyLockSim(c, bb)
            [] OTHER -> c

LoopSim ==
  /\ sketch = "sim"
  /\ \E raw \in [Idx -> BOOLEAN] :
       /\ Cardinality({i \in Idx : raw[i] = LOW}) <= MaxHeld
       /\ LET bb == ToggleB(b, lastb, raw)
          IN /\ currentb' = raw
             /\ b' = bb
             /\ lastb' = StoreLastB(lastb, raw)
             /\ Commit(loopSim(Ctl, bb), LinesOfB(bb))
  /\ UNCHANGED sketch

\* ------------------------------------------------------- specifications
\* The state setup() leaves.
Setup ==
  /\ currentState = ST_IDLE
  /\ gateA = LOW
  /\ gateB = LOW
  /\ led = Green
  /\ b = [i \in Idx |-> HIGH]
  /\ lastb = [i \in Idx |-> HIGH]
  /\ currentb = [i \in Idx |-> HIGH]
  /\ sample = AllHigh
  /\ entryState = ST_IDLE
  /\ cmds = <<>>

Init == sketch \in {"level", "sim"} /\ Setup

Next == LoopLevel \/ LoopSim

Spec == Init /\ [][Next]_vars

InitRace == sketch = "level" /\ Setup

NextRace == LoopLevelRace

SpecRace == InitRace /\ [][NextRace]_vars

\* ------------------------------------------- the snapshot of the last pass
\* Polarity of the lines: presence LOW = beam cut = zone occupied, safety
\* LOW = obstructed, moving HIGH = gate in transit.
Front == sample.front = LOW
Middle == sample.middle = LOW
Back == sample.back = LOW
SafetyA == sample.safetyA = LOW
SafetyB == sample.safetyB = LOW
MovingA == sample.movingA = HIGH
MovingB == sample.movingB = HIGH
Obstructed == SafetyA \/ SafetyB

\* The output level of the gate a call of operateGate named, after the pass
\* (a pass calls operateGate at most once per gate).
OutputOf(call) == IF call.gate = 0 THEN gateA ELSE gateB

\* ------------------------------------------------------------------ claims

\* C1 (as claimed): at the end of every cycle GATE_REQUEST_A and
\* GATE_REQUEST_B are never both at the open level.
C1_MutualExclusion == ~(gateA = HIGH /\ gateB = HIGH)

\* C2 (as claimed): a cycle whose snapshot has safetyA or safetyB obstructed
\* ends with both gate outputs at the closed level.
C2_FailClosedOnObstruction == Obstructed => (gateA = LOW /\ gateB = LOW)

C4_CloseNeverRejected ==
  \A i \in 1 .. Len(cmds) : ~cmds[i].open => OutputOf(cmds[i]) = LOW

\* C5 (as claimed): an open request issued while the gate's own safety
\* sensor reports an obstruction leaves the gate's output at the closed
\* level.  (The claim's second half, a Rejected outcome handed to the
\* caller, has nothing to hold of: operateGate returns void.)
C5_GatewayVeto ==
  \A i \in 1 .. Len(cmds) :
    (cmds[i].open /\ cmds[i].dropped) => OutputOf(cmds[i]) = LOW

C7_FrontPriority ==
  (entryState = ST_IDLE /\ Front /\ Back /\ ~Middle /\ ~Obstructed) =>
    (currentState = ST_FRONT_ENTER /\ gateA = HIGH /\ gateB = LOW)

\* A snapshot of the level-sensing sketch with no obstruction, as line
\* levels, from the logical values of the presence and moving sensors.
Snapshot(front, middle, back, movingA, movingB) ==
  [front |-> IF front THEN LOW ELSE HIGH,
   middle |-> IF middle THEN LOW ELSE HIGH,
   back |-> IF back THEN LOW ELSE HIGH,
   safetyA |-> HIGH, safetyB |-> HIGH,
   movingA |-> IF movingA THEN HIGH ELSE LOW,
   movingB |-> IF movingB THEN HIGH ELSE LOW]

\* One cycle of the level-sensing sketch on controller state c with the
\* lines holding the levels p for the whole pass.
Cycle(c, p) ==
  loop([c EXCEPT !.cmds = <<>>], p,
       [safetyA |-> p.safetyA, safetyB |-> p.safetyB],
       [safetyA |-> p.safetyA, safetyB |-> p.safetyB])

\* The cycle issued exactly the command (gate, open) and it reached the pin.
Commanded(c, gate, open) ==
  /\ Len(c.cmds) = 1
  /\ c.cmds[1].gate = gate
  /\ c.cmds[1].open = open
  /\ ~c.cmds[1].dropped

\* C8 (as claimed): from Idle with both gates closed the snapshots {front};
\* {front, middle, movingA=false}; {middle, movingA=false};
\* {back=false, movingB=false} give FrontEntering, MiddleOccupied,
\* BackExiting, Idle and the commands open(A), close(A), open(B), close(B).
C8_FullFrontEntryTrace ==
  (sketch = "level" /\ currentState = ST_IDLE /\ gateA = LOW /\ gateB = LOW)
  =>
  LET c1 == Cycle(Ctl, Snapshot(TRUE, FALSE, FALSE, FALSE, FALSE))
      c2 == Cycle(c1, Snapshot(TRUE, TRUE, FALSE, FALSE, FALSE))
      c3 == Cycle(c2, Snapshot(FALSE, TRUE, FALSE, FALSE, FALSE))
      c4 == Cycle(c3, Snapshot(FALSE, FALSE, FALSE, FALSE, FALSE))
  IN /\ c1.cs = ST_FRONT_ENTER /\ Commanded(c1, 0, TRUE)
     /\ c2.cs = ST_MIDDLE_OCCUPIED /\ Commanded(c2, 0, FALSE)
     /\ c3.cs = ST_BACK_EXIT /\ Commanded(c3, 1, TRUE)
     /\ c4.cs = ST_IDLE /\ Commanded(c4, 1, FALSE)

\* C9: a cycle that begins in Idle and samples front, middle and back
\* unoccupied with no obstruction ends in Idle with both gate outputs
\* unchanged.
C9_IdleIdempotent ==
  [][(currentState = ST_IDLE
        /\ ~Front' /\ ~Middle' /\ ~Back' /\ ~Obstructed')
     => (currentState' = ST_IDLE /\ gateA' = gateA /\ gateB' = gateB)]_vars

\* C9 witness: a pass that began in Idle with gate B's output left open
\* sampled all zones unoccupied (moving-A line LOW) and no obstruction, and
\* ended in Idle.
C9_Witness ==
  /\ entryState = ST_IDLE /\ currentState = ST_IDLE
  /\ ~Front /\ ~Middle /\ ~Back /\ ~Obstructed /\ ~MovingA
  /\ gateB = HIGH /\ cmds = <<>>

\* C10 (as claimed): in the level-sensing sketch (a) a pass whose safety
\* check at the top found no obstruction has no gate command dropped by
\* operateGate, and (b) a pass that entered the obstruction branch does not
\* end in Idle, also when the lines change between the reads of the pass.
C10_OneSnapshotPerCycle ==
  /\ ~Obstructed => \A i \in 1 .. Len(cmds) : ~cmds[i].dropped
  /\ Obstructed => currentState # ST_IDLE

\* C11 (as claimed): in MiddleOccupied with no obstruction, gate B is
\* commanded open and the state becomes BackExiting exactly in a cycle where
\* movingA is false; in a cycle where movingA is true the state stays
\* MiddleOccupied and gate B's output is unchanged.
C11_MiddleWaitsForASettled ==
  [][(currentState = ST_MIDDLE_OCCUPIED /\ ~Obstructed') =>
       IF ~MovingA'
       THEN currentState' = ST_BACK_EXIT /\ gateB' = HIGH
       ELSE currentState' = ST_MIDDLE_OCCUPIED /\ gateB' = gateB]_vars

\* C12 (as claimed): in BackEntering, a cycle with no obstruction that
\* samples movingB false and middle occupied commands gate B closed and
\* moves the state to MiddleOccupied.
C12_BackEntryMirrorsFront ==
  [][(currentState = ST_BACK_ENTER
        /\ ~Obstructed' /\ ~MovingB' /\ Middle')
     => (currentState' = ST_MIDDLE_OCCUPIED /\ gateB' = LOW)]_vars

\* C13 (as claimed): whenever the state at the end of a cycle is
\* MiddleOccupied, both gate outputs are at the closed level.
C13_MiddleOccupiedGatesClosed ==
  currentState = ST_MIDDLE_OCCUPIED => (gateA = LOW /\ gateB = LOW)

\* C14: in FrontEntering with no obstruction, the state becomes
\* MiddleOccupied with gate A commanded closed if and only if the cycle
\* samples movingA false and middle occupied; in every other such cycle the
\* state and both gate outputs are unchanged.
C14_FrontEnterTransition ==
  [][(currentState = ST_FRONT_ENTER /\ ~Obstructed') =>
       IF ~MovingA' /\ Middle'
       THEN /\ currentState' = ST_MIDDLE_OCCUPIED
            /\ gateA' = LOW /\ gateB' = gateB
            /\ cmds' = <<Call(0, FALSE, FALSE)>>
       ELSE /\ currentState' = ST_FRONT_ENTER
            /\ gateA' = gateA /\ gateB' = gateB
            /\ cmds' = <<>>]_vars

\* C14 witness: a pass that began in FrontEntering sampled movingA false and
\* middle occupied with no obstruction, closed gate A and ended in
\* MiddleOccupied.
C14_Witness ==
  /\ entryState = ST_FRONT_ENTER /\ currentState = ST_MIDDLE_OCCUPIED
  /\ ~Obstructed /\ ~MovingA /\ Middle
  /\ gateA = LOW /\ cmds = <<Call(0, FALSE, FALSE)>>

\* C15 (as claimed): in both sketches, in BackExiting with no obstruction,
\* gate B is commanded closed and the state returns to Idle if and only if
\* the cycle samples movingB false and back unoccupied; otherwise (so while
\* back is occupied) the state stays BackExiting and gate B's output is
\* unchanged.
C15_BackExitTransition ==
  [][(currentState = ST_BACK_EXIT /\ ~Obstructed') =>
       IF ~MovingB' /\ ~Back'
       THEN currentState' = ST_IDLE /\ gateB' = LOW
       ELSE currentState' = ST_BACK_EXIT /\ gateB' = gateB]_vars

C17_BothMovingHolds ==
  [][(currentState # ST_SAFETY_LOCK
        /\ ~Obstructed' /\ MovingA' /\ MovingB')
     => (currentState' = currentState /\ cmds' = <<>>)]_vars

\* C18 (as claimed): the LED colour last written is determined by the
\* current state alone: any two cycles of the level-sensing sketch that end
\* in the same state, whatever they sampled, show the same colour; and red
\* is shown whenever the cycle sampled an obstruction.
C18_ColourIsFunctionOfState ==
  /\ sketch = "level" =>
       \A p1, p2 \in Lines :
         Cycle(Ctl, p1).cs = Cycle(Ctl, p2).cs
           => Cycle(Ctl, p1).led = Cycle(Ctl, p2).led
  /\ Obstructed => led = Red

\* C19: ST_FRONT_EXIT is never the current state, in either sketch.
C19_FrontExitNeverCurrent == currentState # ST_FRONT_EXIT

\* C19 witness: a pass that began in BackEntering sampled movingB false and
\* middle occupied with no obstruction, where the mirrored sequence would
\* move on towards FrontExiting, and the state is still BackEntering.
C19_Witness ==
  /\ entryState = ST_BACK_ENTER /\ currentState = ST_BACK_ENTER
  /\ ~Obstructed /\ ~MovingB /\ Middle

\* C20: in every pass of the simulation sketch b[i] is inverted exactly when
\* the previous raw read was HIGH and the current raw read is LOW, and
\* lastb[i] equals the raw value read in the pass; so a line read LOW in two
\* passes in a row leaves b[i] unchanged in the second.
C20_EdgeToggle ==
  [][sketch = "sim" =>
       /\ \A i \in Idx :
            b'[i] = IF lastb[i] = HIGH /\ currentb'[i] = LOW
                    THEN ~b[i] ELSE b[i]
       /\ lastb' = currentb'
       /\ \A i \in Idx :
            (currentb[i] = LOW /\ currentb'[i] = LOW) => b'[i] = b[i]]_vars

\* C20 witness: a line is read LOW while its b[i] is HIGH again: it has been
\* pulled LOW, released and pulled LOW a second time, toggling b[i] twice.
C20_Witness ==
  /\ sketch = "sim"
  /\ \E i \in Idx : currentb[i] = LOW /\ lastb[i] = LOW /\ b[i] = HIGH

====
